---- MODULE Spec2Model ----
(***************************************************************************)
(* A model of waveline/dualtree.py: the dual-tree complex wavelet          *)
(* transform (dtanalysis, dtsynthesis), the approximation-only             *)
(* reconstruction (dt_approx_rec) and the iterative baseline (dt_baseline).*)
(*                                                                         *)
(* Numbers.  Samples are fixed-point integers: the model value v stands    *)
(* for the float v / Unit.  Filter taps are integers in units of           *)
(* 1/sqrt(2) (the taps of 'haar' are +-1/sqrt(2)), so a coefficient array  *)
(* produced by dwt is held in units of 1/sqrt(2) and idwt, which           *)
(* multiplies by a second tap, divides by 2.  With inputs that are         *)
(* multiples of Unit every division in MaxIter iterations is exact.        *)
(*                                                                         *)
(* Arrays are records [shape, v]: shape is the numpy shape, v the samples  *)
(* in C order.  A 0-d value (a numpy scalar) has shape << >>.              *)
(***************************************************************************)
EXTENDS Integers, Sequences, FiniteSets, TLC

\* ------------------------------------------------------------------ bounds
MaxIter == 2
MaxPeak == 2
MaxLevelArg == 2

\* Every sample of an input is a multiple of Unit: dt_approx_rec halves twice.
Unit == 4 ^ MaxIter

\* ------------------------------------------------------- the wavelet library
\* dec_len of the two banks of 'qshift_a' (Kingsbury's 10-tap q-shift filters).
QshiftLen == 10

NoError == "none"

\* pywt.Wavelet('haar'), taps in units of 1/sqrt(2).
Haar ==
  [name |-> "haar", dec_lo |-> <<1, 1>>, dec_hi |-> <<-1, 1>>,
   rec_lo |-> <<1, 1>>, rec_hi |-> <<1, -1>>]

\* pywt.Wavelet('haar_padded', filter_bank = ...): the Haar bank zero-padded to
\* four taps, the last tap 0, the way pywt pads a biorthogonal bank.
PaddedHaar ==
  [name |-> "haar_padded", dec_lo |-> <<0, 1, 1, 0>>, dec_hi |-> <<0, -1, 1, 0>>,
   rec_lo |-> <<0, 1, 1, 0>>, rec_hi |-> <<0, 1, -1, 0>>]

\* The first-stage wavelets passed by the callers.  The default first stage,
\* 'bior5.5', has irrational taps and no exact fixed-point form, so no call
\* relies on that default: every call names its first stage.
FirstStages == {Haar, PaddedHaar}

\* wavelets.dualtree_wavelet(name): the (real, imaginary) steady-state banks.
\* Their length decides dt_max_level; their taps are read only at level >= 2.
dualtree_wavelet(wavelet) ==
  LET pad == [j \in 1..((QshiftLen - 2) \div 2) |-> 0]
      bank == [name |-> wavelet,
               dec_lo |-> pad \o <<1, 1>> \o pad, dec_hi |-> pad \o <<-1, 1>> \o pad,
               rec_lo |-> pad \o <<1, 1>> \o pad, rec_hi |-> pad \o <<1, -1>> \o pad]
  IN <<bank, bank>>

dec_len(w) == Len(w.dec_lo)

\* floor(log2(n)) for n >= 1.
RECURSIVE Log2Floor(_)
Log2Floor(n) == IF n < 2 THEN 0 ELSE 1 + Log2Floor(n \div 2)

\* pywt.dwt_max_level(data_len, filter_len)
dwt_max_level(data_len, filter_len) ==
  IF filter_len <= 1 \/ data_len < filter_len - 1 THEN 0
  ELSE Log2Floor(data_len \div (filter_len - 1))

\* The sample at 0-based index i of x extended by half-sample symmetry:
\* ... x1 x0 | x0 x1 ... x(N-1) | x(N-1) x(N-2) ...
Ext(x, i) ==
  LET N == Len(x)
      m == i % (2 * N)
  IN IF m < N THEN x[m + 1] ELSE x[2 * N - m]

\* One output of pywt's downsampling convolution: sum_j filt[j] * x[2k+1-j].
DownConv(x, filt, k) ==
  LET F == Len(filt)
      S[j \in 0..F] == IF j = 0 THEN 0 ELSE S[j - 1] + filt[j] * Ext(x, 2 * k + 2 - j)
  IN S[F]

\* pywt.dwt(data, wavelet, mode = 'symmetric') of a 1-D sequence: (cA, cD).
dwt(x, w) ==
  LET L == (Len(x) + dec_len(w) - 1) \div 2
  IN [cA |-> [k \in 1..L |-> DownConv(x, w.dec_lo, k - 1)],
      cD |-> [k \in 1..L |-> DownConv(x, w.dec_hi, k - 1)]]

Tap(filt, t) == IF t >= 0 /\ t < Len(filt) THEN filt[t + 1] ELSE 0

\* One output of pywt's upsampling convolution (valid part), before the
\* division by 2 that the two 1/sqrt(2) units amount to.
UpConv(cA, cD, w, n) ==
  LET F == dec_len(w)
      L == Len(cA)
      S[k \in 0..L] ==
        IF k = 0 THEN 0
        ELSE S[k - 1] + cA[k] * Tap(w.rec_lo, n + F - 2 * k)
                      + cD[k] * Tap(w.rec_hi, n + F - 2 * k)
  IN S[L]

\* A result: err is NoError or the exception raised; val is what is returned.
Ok(val) == [err |-> NoError, val |-> val]
Raise(e) == [err |-> e, val |-> << >>]

\* A real 1-D array and a 0-d value, as the entries of a coefficient list.
Arr1(v) == [shape |-> <<Len(v)>>, v |-> v]
Arr0(x) == [shape |-> << >>, v |-> <<x>>]
ndim(a) == Len(a.shape)

\* pywt.idwt(cA, cD, wavelet, mode) of two 1-D sequences.
idwt(cA, cD, w) ==
  IF Len(cA) # Len(cD) THEN Raise("ValueError")
  ELSE Ok(Arr1([n \in 1..(2 * Len(cA) - dec_len(w) + 2) |->
                  UpConv(cA, cD, w, n - 1) \div 2]))

\* pywt.wavedec(data, wavelet, mode, level): [cA_n, cD_n, ..., cD_1].
RECURSIVE wavedec(_, _, _)
wavedec_step(first, w, level) ==
  Ok(Append(wavedec(first.cA, w, level - 1).val, first.cD))

wavedec(x, w, level) ==
  IF level < 0 THEN Raise("ValueError")
  ELSE IF level = 0 THEN Ok(<<x>>)
  ELSE wavedec_step(dwt(x, w), w, level)

\* a[:len(d)] when a is one sample longer than d, as waverec trims it.
TrimTo(a, d) == IF Len(a) = Len(d) + 1 THEN SubSeq(a, 1, Len(d)) ELSE a

\* pywt.waverec(coeffs, wavelet, mode) over entries [shape, v]; a is the
\* running approximation, ds the details still to be merged.
RECURSIVE waverec_from(_, _, _)
waverec_from(a, ds, w) ==
  IF a.err # NoError \/ ds = << >> THEN a
  ELSE IF ndim(a.val) = 0 \/ ndim(Head(ds)) = 0 THEN Raise("ValueError")
  ELSE waverec_from(idwt(TrimTo(a.val.v, Head(ds).v), Head(ds).v, w), Tail(ds), w)

waverec(coeffs, w) ==
  IF Len(coeffs) < 1 THEN Raise("ValueError")
  ELSE waverec_from(Ok(coeffs[1]), Tail(coeffs), w)

\* ------------------------------------------------------------ dualtree.py
\* A complex array [shape, re, im]; a real one has im = 0 everywhere.
Zeros(n) == [k \in 1..n |-> 0]
Complex(re, im) == [shape |-> <<Len(re)>>, re |-> re, im |-> im]
RealPart(c) == [shape |-> c.shape, v |-> c.re]
ImagPart(c) == [shape |-> c.shape, v |-> c.im]
AsComplex(a) == [shape |-> a.shape, re |-> a.v, im |-> Zeros(Len(a.v))]
zeros_like(c) == [shape |-> c.shape, re |-> Zeros(Len(c.re)), im |-> Zeros(Len(c.im))]
size(a) == Len(a.v)

RECURSIVE MinOf(_)
MinOf(s) == IF Len(s) = 1 THEN s[1]
            ELSE IF s[1] < MinOf(Tail(s)) THEN s[1] ELSE MinOf(Tail(s))

Max2(a, b) == IF a > b THEN a ELSE b

\* A level argument: the string 'max' or an integer.
LevelMax == [kind |-> "max", n |-> 0]
LevelInt(k) == [kind |-> "int", n |-> k]
IsMax(level) == level.kind = "max"

dt_max_level(data, first_stage, wavelet) ==
  dwt_max_level(MinOf(data.shape),
                Max2(Max2(dec_len(dualtree_wavelet(wavelet)[1]),
                          dec_len(dualtree_wavelet(wavelet)[2])),
                     dec_len(first_stage)))

\* bank[1:], bank[0] = bank[:-1], 0
ShiftBank(bank) == <<0>> \o SubSeq(bank, 1, Len(bank) - 1)

dt_first_stage(wavelet) ==
  <<wavelet,
    [name |-> wavelet.name,
     dec_lo |-> ShiftBank(wavelet.dec_lo), dec_hi |-> ShiftBank(wavelet.dec_hi),
     rec_lo |-> ShiftBank(wavelet.rec_lo), rec_hi |-> ShiftBank(wavelet.rec_hi)]>>

\* lines 319-321: the later stages of one tree, then coeffs.append(detail).
LaterStages(first, wavelet, level) ==
  IF level - 1 < 0 THEN Raise("ValueError")
  ELSE Ok(Append(wavedec(first.cA, wavelet, level - 1).val, first.cD))

_dt_analysis_tree(data, first_stage, wavelet, level) ==
  LaterStages(dwt(data.v, first_stage), wavelet, level)

\* lines 330-333: the trim and the first-stage inverse transform.
FirstStageInverse(late_synthesis, first_stage_detail, first_stage) ==
  IF late_synthesis.err # NoError THEN late_synthesis
  ELSE IF ndim(late_synthesis.val) = 0 \/ ndim(first_stage_detail) = 0
       THEN Raise("TypeError")
  ELSE idwt(IF size(late_synthesis.val) = size(first_stage_detail) + 1
            THEN SubSeq(late_synthesis.val.v, 1, size(late_synthesis.val) - 1)
            ELSE late_synthesis.val.v,
            first_stage_detail.v, first_stage)

_dt_synthesis_tree(coeffs, first_stage, wavelet) ==
  FirstStageInverse(waverec(SubSeq(coeffs, 1, Len(coeffs) - 1), wavelet),
                    coeffs[Len(coeffs)], first_stage)

\* What dtanalysis hands back: the ndarray data itself, or a list of complex arrays.
AsNdarray(data) == [kind |-> "ndarray", arr |-> data, list |-> << >>]
AsList(coeffs) == [kind |-> "list", arr |-> Arr1(<< >>), list |-> coeffs]

\* lines 265-268: real + 1j*imag, entry by entry.
CombineTrees(real_coeffs, imag_coeffs) ==
  IF real_coeffs.err # NoError THEN real_coeffs
  ELSE IF imag_coeffs.err # NoError THEN imag_coeffs
  ELSE Ok(AsList([k \in 1..Len(real_coeffs.val) |->
                    Complex(real_coeffs.val[k], imag_coeffs.val[k])]))

\* lines 261-262: the two trees at a resolved level.
AnalysisTrees(data, firsts, dtw, level) ==
  CombineTrees(_dt_analysis_tree(data, firsts[1], dtw[1], level),
               _dt_analysis_tree(data, firsts[2], dtw[2], level))

dtanalysis(data, first_stage, wavelet, level) ==
  IF IsMax(level)
  THEN AnalysisTrees(data, dt_first_stage(first_stage), dualtree_wavelet(wavelet),
                     dt_max_level(data, first_stage, wavelet))
  ELSE IF level.n < 0 THEN Raise("ValueError")
  ELSE IF level.n = 0 THEN Ok(AsNdarray(data))
  ELSE AnalysisTrees(data, dt_first_stage(first_stage), dualtree_wavelet(wavelet),
                     level.n)

\* len(x), x[0], x[1:] of a dtanalysis result: indexing an ndarray gives 0-d values.
Entries(res) ==
  IF res.kind = "list" THEN res.list
  ELSE [k \in 1..Len(res.arr.v) |-> AsComplex(Arr0(res.arr.v[k]))]

\* line 312: 0.5*(real + imag)
MeanOfTrees(real, imag) ==
  IF real.err # NoError THEN real
  ELSE IF imag.err # NoError THEN imag
  ELSE Ok(AsComplex(Arr1([k \in 1..size(real.val) |->
                            (real.val.v[k] + imag.val.v[k]) \div 2])))

\* lines 306-310: the two trees over the real and the imaginary parts.
SynthesisTrees(coeffs, firsts, dtw) ==
  MeanOfTrees(
    _dt_synthesis_tree([k \in 1..Len(coeffs) |-> RealPart(coeffs[k])], firsts[1], dtw[1]),
    _dt_synthesis_tree([k \in 1..Len(coeffs) |-> ImagPart(coeffs[k])], firsts[2], dtw[2]))

dtsynthesis(coeffs, first_stage, wavelet) ==
  IF Len(coeffs) < 1 THEN Raise("ValueError")
  ELSE IF Len(coeffs) = 1 THEN Ok(coeffs[1])
  ELSE SynthesisTrees(coeffs, dt_first_stage(first_stage), dualtree_wavelet(wavelet))

\* lines 114-118: the exception the dimensionality check raises, if any.
DimError(dim) ==
  IF dim > 2 THEN "ValueError"
  ELSE IF dim = 2 THEN "NotImplementedError"
  ELSE NoError

\* lines 151-166: the reconstruction brought to the size of the input.
Reconcile(original_array, reconstructed) ==
  IF size(reconstructed) = size(original_array) THEN reconstructed
  ELSE IF size(original_array) < size(reconstructed)
       THEN Arr1(SubSeq(reconstructed.v, 1, original_array.shape[1]))
  ELSE [shape |-> original_array.shape,
        v |-> [k \in 1..size(original_array) |->
                 IF k <= size(reconstructed) THEN reconstructed.v[k] ELSE 0]]

NoArray == Arr1(<< >>)

\* What a call of dt_approx_rec does: the exception or the array returned,
\* whether the warning was emitted, whether the transform was reached.
Outcome(err, val, warned, transformed) ==
  [err |-> err, val |-> val, warned |-> warned, transformed |-> transformed]

\* lines 124-128: the level used, and whether the warning is emitted.
ResolveLevel(level, max_level) ==
  IF IsMax(level) THEN [n |-> max_level, warned |-> FALSE]
  ELSE IF level.n > max_level THEN [n |-> max_level, warned |-> TRUE]
  ELSE [n |-> level.n, warned |-> FALSE]

\* lines 133-141: [app_coeffs] + zeroed
ZeroDetails(coeffs) ==
  <<coeffs[1]>> \o [k \in 1..(Len(coeffs) - 1) |-> zeros_like(coeffs[k + 1])]

\* lines 148-166
ApproxFromReconstruction(array, reconstructed, warned) ==
  IF reconstructed.err # NoError
  THEN Outcome(reconstructed.err, NoArray, warned, TRUE)
  ELSE Outcome(NoError, Reconcile(array, RealPart(reconstructed.val)), warned, TRUE)

\* lines 132-148
ApproxFromCoeffs(array, coeffs, warned, first_stage, wavelet) ==
  IF coeffs.err # NoError THEN Outcome(coeffs.err, NoArray, warned, TRUE)
  ELSE ApproxFromReconstruction(
         array, dtsynthesis(ZeroDetails(Entries(coeffs.val)), first_stage, wavelet), warned)

ApproxAtLevel(array, resolved, first_stage, wavelet) ==
  ApproxFromCoeffs(array, dtanalysis(array, first_stage, wavelet, LevelInt(resolved.n)),
                   resolved.warned, first_stage, wavelet)

dt_approx_rec(array, level, first_stage, wavelet) ==
  IF DimError(ndim(array)) # NoError
  THEN Outcome(DimError(ndim(array)), NoArray, FALSE, FALSE)
  ELSE ApproxAtLevel(array,
                     ResolveLevel(level, dt_max_level(array, first_stage, wavelet)),
                     first_stage, wavelet)

\* ------------------------------------------------------------- dt_baseline
\* A background region: an int index or a slice(start, stop) on the first axis
\* (0-based, as in Python).
Index(k) == [kind |-> "index", start |-> k, stop |-> k + 1]
Slice(a, b) == [kind |-> "slice", start |-> a, stop |-> b]

RECURSIVE Product(_)
Product(s) == IF s = << >> THEN 1 ELSE Head(s) * Product(Tail(s))

\* The positions of v (1-based) that a[index] names.
RegionPositions(a, index) ==
  LET stride == Product(Tail(a.shape))
  IN (index.start * stride + 1)..(index.stop * stride)

RegionsPositions(a, regions) ==
  UNION {RegionPositions(a, regions[r]) : r \in 1..Len(regions)}

\* The pinning left out: the working signal keeps what the clamp made of it.
PinBackgroundSkipped(signal, array, background_regions) == signal

\* lines 66-67: for index in background_regions: signal[index] = array[index]
PinBackground(signal, array, background_regions) ==
  [shape |-> signal.shape,
   v |-> [k \in 1..size(signal) |->
            IF k \in RegionsPositions(array, background_regions)
            THEN array.v[k] ELSE signal.v[k]]]

\* The clamp with the comparison reversed: signal[signal < background] = ...
ClampReversed(signal, background) ==
  [shape |-> signal.shape,
   v |-> [k \in 1..size(signal) |->
            IF signal.v[k] < background.v[k] THEN background.v[k] ELSE signal.v[k]]]

\* line 74: signal[signal > background] = background[signal > background]
Clamp(signal, background) ==
  [shape |-> signal.shape,
   v |-> [k \in 1..size(signal) |->
            IF signal.v[k] > background.v[k] THEN background.v[k] ELSE signal.v[k]]]

\* The masking left out: the last candidate background is returned as it is.
MaskBackgroundSkipped(background, mask) == background

\* line 77: background[mask] = 0
MaskBackground(background, mask) ==
  [shape |-> background.shape,
   v |-> [k \in 1..size(background) |-> IF mask[k] THEN 0 ELSE background.v[k]]]

\* lines 57-58: the mask argument, None standing for no sample masked.
NoMask == [none |-> TRUE, v |-> << >>]
MaskOf(v) == [none |-> FALSE, v |-> v]
ResolveMask(array, mask) ==
  IF mask.none THEN [k \in 1..size(array) |-> FALSE] ELSE mask.v

\* line 60: signal = n.copy(array) is a buffer of its own.
SignalSharesArray == FALSE
WriteThrough(arr, sig) == IF SignalSharesArray THEN sig ELSE arr

\* --------------------------------------------------------------- the inputs
MinLong == 2 * (QshiftLen - 1)
Lens == {2, 3, MinLong, MinLong + 1}

PeakPositions(N) == {1, N \div 2, N \div 2 + 1}

\* A flat signal with one peak, in fixed point.
Peak(shape, p, h) ==
  [shape |-> shape, v |-> [k \in 1..Product(shape) |-> IF k = p THEN h * Unit ELSE 0]]

Arrays1D ==
  UNION {{Peak(<<N>>, p, h) : p \in PeakPositions(N), h \in 0..MaxPeak} : N \in Lens}
ArraysND == {Peak(shape, 1, h) : shape \in {<<2, 2>>, <<2, 2, 2>>}, h \in {0, MaxPeak}}
Arrays == Arrays1D \cup ArraysND

Levels == {LevelMax} \cup {LevelInt(k) : k \in -1..MaxLevelArg}

RegionLists(a) ==
  LET N == a.shape[1]
  IN {<< >>, <<Index(N \div 2 - 1), Slice(N - 1, N)>>}

Masks(a) ==
  LET N == a.shape[1]
  IN {NoMask,
      MaskOf([k \in 1..size(a) |-> k \in RegionPositions(a, Slice(N \div 2 - 1, N \div 2 + 1))])}

\* ---------------------------------------------------------------- the state
VARIABLES
  pc,          \* "idle", "pin", "approx", "clamp", "mask", "analysed", "done"
  fn,          \* the entry point called
  args,        \* its arguments as passed
  array,       \* the caller's array object, as it is now
  signal,      \* dt_baseline's working signal
  background,  \* dt_baseline's candidate background
  i,           \* iterations of dt_baseline completed
  result,      \* what the call raised or returned
  warned,      \* a UserWarning was emitted
  transformed  \* the wavelet transform was reached

vars == <<pc, fn, args, array, signal, background, i, result, warned, transformed>>

NoResult == [err |-> NoError, kind |-> "none", arr |-> NoArray, list |-> << >>]
Raised(e) == [err |-> e, kind |-> "none", arr |-> NoArray, list |-> << >>]
Returned(a) == [err |-> NoError, kind |-> "ndarray", arr |-> a, list |-> << >>]

\* No call has been made: no argument is bound.
Unbound == [array |-> NoArray]

Init ==
  /\ pc = "idle"
  /\ fn = "none"
  /\ args = Unbound
  /\ array = NoArray
  /\ signal = NoArray
  /\ background = NoArray
  /\ i = 0
  /\ result = NoResult
  /\ warned = FALSE
  /\ transformed = FALSE

\* dt_baseline, lines 56-62: up to the loop, whose body range(max_iter) skips
\* when max_iter = 0.
CallBaseline ==
  \E a \in Arrays, max_iter \in 0..MaxIter, level \in Levels, first_stage \in FirstStages :
    \E regions \in RegionLists(a), mask \in Masks(a) :
      /\ pc = "idle"
      /\ fn' = "dt_baseline"
      /\ args' = [array |-> a, max_iter |-> max_iter, level |-> level,
                  first_stage |-> first_stage, wavelet |-> "qshift_a",
                  background_regions |-> regions, mask |-> mask]
      /\ array' = a
      /\ signal' = a
      /\ background' = [shape |-> a.shape, v |-> Zeros(size(a))]
      /\ i' = 0
      /\ pc' = IF 0 < max_iter THEN "pin" ELSE "mask"
      /\ UNCHANGED <<result, warned, transformed>>

\* lines 66-67
BaselinePin ==
  /\ pc = "pin"
  /\ signal' = PinBackground(signal, array, args.background_regions)
  /\ array' = WriteThrough(array, signal')
  /\ pc' = "approx"
  /\ UNCHANGED <<fn, args, background, i, result, warned, transformed>>

\* line 70: background = dt_approx_rec(...), or its exception leaves dt_baseline.
TakeBackground(r) ==
  /\ warned' = (warned \/ r.warned)
  /\ transformed' = (transformed \/ r.transformed)
  /\ result' = IF r.err # NoError THEN Raised(r.err) ELSE result
  /\ background' = IF r.err # NoError THEN background ELSE r.val
  /\ pc' = IF r.err # NoError THEN "done" ELSE "clamp"

BaselineApprox ==
  /\ pc = "approx"
  /\ TakeBackground(dt_approx_rec(signal, args.level, args.first_stage, args.wavelet))
  /\ UNCHANGED <<fn, args, array, signal, i>>

\* line 74, and the loop's next round
BaselineClamp ==
  /\ pc = "clamp"
  /\ signal' = Clamp(signal, background)
  /\ array' = WriteThrough(array, signal')
  /\ i' = i + 1
  /\ pc' = IF i + 1 < args.max_iter THEN "pin" ELSE "mask"
  /\ UNCHANGED <<fn, args, background, result, warned, transformed>>

\* lines 77-78
BaselineReturn ==
  /\ pc = "mask"
  /\ background' = MaskBackground(background, ResolveMask(array, args.mask))
  /\ result' = Returned(background')
  /\ pc' = "done"
  /\ UNCHANGED <<fn, args, array, signal, i, warned, transformed>>

TakeApprox(r) ==
  /\ result' = IF r.err # NoError THEN Raised(r.err) ELSE Returned(r.val)
  /\ warned' = r.warned
  /\ transformed' = r.transformed

\* dt_approx_rec called by itself.
CallApproxRec ==
  \E a \in Arrays, level \in Levels, first_stage \in FirstStages :
    /\ pc = "idle"
    /\ fn' = "dt_approx_rec"
    /\ args' = [array |-> a, level |-> level, first_stage |-> first_stage,
                wavelet |-> "qshift_a", mask |-> NoMask]
    /\ array' = a
    /\ TakeApprox(dt_approx_rec(a, level, first_stage, "qshift_a"))
    /\ pc' = "done"
    /\ UNCHANGED <<signal, background, i>>

\* The levels dtanalysis is called with: any for a 1-D signal; for other
\* dimensions those that return before pywt is reached.
AnalysisLevels(a) ==
  IF ndim(a) = 1 THEN {LevelMax} \cup {LevelInt(k) : k \in -1..1}
  ELSE {LevelInt(-1), LevelInt(0)}

TakeAnalysis(r, a) ==
  /\ result' = IF r.err # NoError THEN Raised(r.err)
               ELSE [err |-> NoError, kind |-> r.val.kind,
                     arr |-> r.val.arr, list |-> r.val.list]
  /\ pc' = IF r.err = NoError /\ ndim(a) = 1 THEN "analysed" ELSE "done"

\* dtanalysis called by itself.
CallAnalysis ==
  \E a \in Arrays, first_stage \in FirstStages :
    \E level \in AnalysisLevels(a) :
      /\ pc = "idle"
      /\ fn' = "dtanalysis"
      /\ args' = [array |-> a, first_stage |-> first_stage, wavelet |-> "qshift_a",
                  level |-> level]
      /\ array' = a
      /\ TakeAnalysis(dtanalysis(a, first_stage, "qshift_a", level), a)
      /\ transformed' = TRUE
      /\ UNCHANGED <<signal, background, i, warned>>

TakeSynthesis(r) ==
  result' = IF r.err # NoError THEN Raised(r.err) ELSE Returned(RealPart(r.val))

\* dtsynthesis of the coefficients dtanalysis returned, none modified, with
\* the same wavelets (tests.py, lines 27-28).
CallSynthesis ==
  /\ pc = "analysed"
  /\ fn' = "dtsynthesis"
  /\ TakeSynthesis(dtsynthesis(Entries(result), args.first_stage, args.wavelet))
  /\ pc' = "done"
  /\ UNCHANGED <<args, array, signal, background, i, warned, transformed>>

Next ==
  \/ CallBaseline
  \/ BaselinePin
  \/ BaselineApprox
  \/ BaselineClamp
  \/ BaselineReturn
  \/ CallApproxRec
  \/ CallAnalysis
  \/ CallSynthesis

Spec == Init /\ [][Next]_vars

\* ---------------------------------------------------------------- the claims
OneD == ndim(args.array) = 1
ArgMaxLevel == dt_max_level(args.array, args.first_stage, args.wavelet)
ArgLevel == IF IsMax(args.level) THEN ArgMaxLevel ELSE args.level.n
BgPositions == RegionsPositions(args.array, args.background_regions)
ArgMask == ResolveMask(args.array, args.mask)
Positions == 1..size(args.array)

\* C1 (perfect reconstruction): dtsynthesis of the unmodified coefficients of
\* dtanalysis at a level from 1 to dt_max_level, or at 'max', returns the input
\* signal, sample by sample and of the same length.
C1_PerfectReconstruction ==
  (/\ pc = "done"
   /\ fn = "dtsynthesis"
   /\ (IsMax(args.level) \/ (args.level.n >= 1 /\ args.level.n <= ArgMaxLevel)))
  => (result.err = NoError /\ result.arr = args.array)

\* C2 (size preservation): dt_approx_rec of a 1-D array returns an array of the
\* input's shape for every level: within the ceiling, 'max', 0, or too high.
C2_SizePreserved ==
  (/\ pc = "done"
   /\ fn = "dt_approx_rec"
   /\ OneD
   /\ (IsMax(args.level) \/ args.level.n >= 0))
  => (result.err = NoError /\ result.arr.shape = args.array.shape)

\* C3 (mask enforcement): the array dt_baseline returns is exactly 0 at every
\* position where the mask is True.
C3_MaskEnforced ==
  (pc = "done" /\ fn = "dt_baseline" /\ result.err = NoError)
  => \A k \in Positions : ArgMask[k] => result.arr.v[k] = 0

\* A returned baseline with a masked position where the working signal, which
\* the last clamp left at or below the candidate background, is still above 0.
C3_Witness ==
  /\ pc = "done"
  /\ fn = "dt_baseline"
  /\ result.err = NoError
  /\ \E k \in Positions : ArgMask[k] /\ signal.v[k] > 0 /\ result.arr.v[k] = 0

\* C4 (dimensionality rejection): dt_baseline and dt_approx_rec raise ValueError
\* for a 3-D array and NotImplementedError for a 2-D array, before the wavelet
\* transform is reached and without returning an array.
C4_DimensionalityRejected ==
  (pc = "done" /\ fn \in {"dt_baseline", "dt_approx_rec"} /\ ~OneD)
  => /\ result.err = (IF ndim(args.array) = 2 THEN "NotImplementedError" ELSE "ValueError")
     /\ result.kind = "none"
     /\ ~transformed

\* C5 (level too high is recoverable): dt_approx_rec with an integer level above
\* dt_max_level does not fail, warns, and returns what level = 'max' returns.
C5_LevelTooHighRecovers ==
  (/\ pc = "done"
   /\ fn = "dt_approx_rec"
   /\ OneD
   /\ ~IsMax(args.level)
   /\ args.level.n > ArgMaxLevel)
  => /\ result.err = NoError
     /\ warned
     /\ result.arr = dt_approx_rec(args.array, LevelMax, args.first_stage, args.wavelet).val

\* C6 (level-0 identity): dt_approx_rec of a 1-D array at level 0 returns the
\* array unchanged.
C6_LevelZeroIdentity ==
  (pc = "done" /\ fn = "dt_approx_rec" /\ OneD /\ args.level = LevelInt(0))
  => (result.err = NoError /\ result.arr = args.array)

\* C7 (coefficient list shape): dtanalysis of a 1-D signal at a level L >= 0
\* (or the level 'max' resolves to) returns a list of L + 1 entries, the
\* first-stage detail last, each entry the real tree's + i * the imaginary tree's.
C7_CoefficientListShape ==
  (/\ fn = "dtanalysis"
   /\ pc \in {"analysed", "done"}
   /\ OneD
   /\ (IsMax(args.level) \/ args.level.n >= 0))
  => /\ result.err = NoError
     /\ result.kind = "list"
     /\ Len(result.list) = ArgLevel + 1
     /\ result.list[ArgLevel + 1] =
          Complex(dwt(args.array.v, dt_first_stage(args.first_stage)[1]).cD,
                  dwt(args.array.v, dt_first_stage(args.first_stage)[2]).cD)

\* C8 (dtanalysis rejects non-1-D input): called with a valid level, a 2-D
\* array raises NotImplementedError and an array of more dimensions raises
\* ValueError, instead of a result being returned.
C8_AnalysisRejectsNonOneD ==
  (fn = "dtanalysis" /\ pc = "done" /\ ~OneD /\ args.level.n >= 0)
  => result.err = (IF ndim(args.array) = 2 THEN "NotImplementedError" ELSE "ValueError")

\* C9 (monotone suppression): in every step of dt_baseline's loop the working
\* signal does not rise at any sample outside the background regions, and the
\* clamp step leaves it at or below the candidate background at every sample.
C9_MonotoneSuppression ==
  [][(fn = "dt_baseline" /\ fn' = "dt_baseline")
     => /\ \A k \in Positions \ BgPositions : signal'.v[k] <= signal.v[k]
        /\ pc = "clamp" => \A k \in Positions : signal'.v[k] <= background'.v[k]]_vars

\* After the second clamp: a sample outside the background regions that the
\* clamps brought below its input value, onto a background above 0.
C9_Witness ==
  /\ fn = "dt_baseline"
  /\ pc = "mask"
  /\ i >= 2
  /\ \E k \in Positions \ BgPositions :
       /\ 0 < signal.v[k]
       /\ signal.v[k] < args.array.v[k]
       /\ signal.v[k] = background.v[k]

\* C10 (background pinning): the working signal handed to dt_approx_rec equals
\* the input at every index of background_regions, in every iteration, and
\* dt_baseline never modifies the caller's array.
C10_BackgroundPinned ==
  fn = "dt_baseline"
  => /\ array = args.array
     /\ pc = "approx" => \A k \in BgPositions : signal.v[k] = args.array.v[k]

\* A later iteration about to call dt_approx_rec: a pinned sample that the
\* clamp before had brought below its input value.
C10_Witness ==
  /\ fn = "dt_baseline"
  /\ pc = "approx"
  /\ i >= 1
  /\ \E k \in BgPositions : background.v[k] < args.array.v[k]
                            /\ signal.v[k] = args.array.v[k]

====
